---- MODULE Spec2Model ----
(***************************************************************************)
(* Model of the data-access code of src/app/services/appwrite.ts:          *)
(*   - useFetch, the per-screen fetch controller (lines 656-808);          *)
(*   - retryWithBackoff, the retry loop (lines 74-101);                    *)
(*   - updateSearchCount, getTrendingMovies and cleanupDuplicateMovies,    *)
(*     the clients of the trending collection (lines 104-285).             *)
(* Results and errors of the wrapped operation are opaque to the code;     *)
(* the model tags each with the call (or attempt) that produced it, so     *)
(* that "whose result is on screen" can be read off the state.             *)
(***************************************************************************)
EXTENDS Integers, Sequences, FiniteSets, TLC

VARIABLES state, requestIdRef, isMountedRef, options, effectRan, calls, exec,
          docs, nextId, clock, writers, recon, trend, events, recorded

vars == <<state, requestIdRef, isMountedRef, options, effectRan, calls, exec,
          docs, nextId, clock, writers, recon, trend, events, recorded>>

fetchVars == <<state, requestIdRef, isMountedRef, options, effectRan, calls>>

\* the document collection and its clients (lines 104-285)
storeVars == <<docs, nextId, clock, writers, recon, trend, events, recorded>>

(* ------------------------------ bounds --------------------------------- *)
\* fetch()/refetch() calls issued on one controller
MaxCalls == 2
\* largest value of the useFetch option `retries`
MaxRetriesOpt == 1
\* concurrent retryWithBackoff executions
NumExec == 2
\* largest value of retryWithBackoff's `retries` argument
MaxRetriesArg == 4
\* movies in the collection when the page of a trending query is studied
NumMovies == 6
\* documents of one movie in such a collection
MaxCopies == 3
\* updateSearchCount calls
NumWriters == 2
\* cleanupDuplicateMovies runs of one app instance
MaxRuns == 2
\* documents in the collection when a cleanup or a trending query is studied alone
MaxInitDocs == 3
\* app instances that run cleanupDuplicateMovies on the shared collection
NumInstances == 2

(* ========================= useFetch (656-808) ========================== *)

\* null, the absent data / error (useState initial value)
Null == 0

initialState == [data |-> Null, loading |-> FALSE, error |-> Null, isStale |-> FALSE]

\* variant: the start of a fetch also drops the data shown
setLoading_ClearsData(prev) ==
    [prev EXCEPT !.data = Null, !.loading = TRUE, !.error = Null, !.isStale = FALSE]

\* variant: the start of a fetch leaves the error of the last one in place
setLoading_KeepsError(prev) == [prev EXCEPT !.loading = TRUE, !.isStale = FALSE]

\* setState at the start of a first attempt
setLoading(prev) == [prev EXCEPT !.loading = TRUE, !.error = Null, !.isStale = FALSE]

\* setState on a successful, current attempt
commitSuccess(prev, result) ==
    [prev EXCEPT !.data = result, !.loading = FALSE, !.error = Null, !.isStale = FALSE]

\* variant: a failed fetch always flags the data stale
commitFailure_AlwaysStale(prev, err) ==
    [prev EXCEPT !.loading = FALSE, !.error = err, !.isStale = TRUE]

\* setState on a terminal failure of a current attempt
commitFailure(prev, err) ==
    [prev EXCEPT !.loading = FALSE, !.error = err, !.isStale = (prev.data # Null)]

\* the status helpers that the hook returns (lines 803-806)
isSuccess(s) == ~s.loading /\ s.error = Null /\ s.data # Null

isError(s) == ~s.loading /\ s.error # Null

isIdle(s) == ~s.loading /\ s.error = Null /\ s.data = Null

\* variant: the mounted flag is not consulted
isLatest_IgnoresUnmount(requestId) == requestId = requestIdRef

\* "is this still the latest request and the component mounted"
isLatest(requestId) == requestId = requestIdRef /\ isMountedRef

\* retryCount < retries
canRetry(retryCount) == retryCount < options.retries

\* how the promise of fetchData settles: its return value or the rethrown error
fetchDataSettle(threw, committed) ==
    IF threw THEN "rejected" ELSE IF committed THEN "value" ELSE "null"

\* variant: refetch without its catch
refetchSettle_NoCatch(inner) == inner

\* refetch: try { return await fetchData() } catch { return null }
refetchSettle(inner) == IF inner = "rejected" THEN "null" ELSE inner

\* what the caller of the call of kind `kind` observes
callerSettle(kind, inner) == IF kind = "refetch" THEN refetchSettle(inner) ELSE inner

\* a fetchData() call entered from outside (retryCount = 0): takes the next
\* request id, sets loading, invokes fetchFunction and suspends on it
startFetch(kind) ==
    /\ requestIdRef' = requestIdRef + 1
    /\ state' = setLoading(state)
    /\ calls' = Append(calls, [status |-> "awaiting", requestId |-> requestIdRef + 1,
                               retryCount |-> 0, kind |-> kind, outcome |-> "none",
                               settled |-> "pending", discarded |-> FALSE])

\* the mount effect: auto-fetch when the option says so
mountEffect ==
    /\ ~effectRan
    /\ effectRan' = TRUE
    /\ IF options.autoFetch
          THEN startFetch("auto")
          ELSE UNCHANGED <<state, requestIdRef, calls>>
    /\ UNCHANGED <<isMountedRef, options, exec, storeVars>>

\* refetch(): a manual fetchData()
refetch ==
    /\ effectRan /\ isMountedRef
    /\ Len(calls) < MaxCalls
    /\ startFetch("refetch")
    /\ UNCHANGED <<isMountedRef, options, effectRan, exec, storeVars>>

\* fetchFunction() of call c resolves
fetchResolve(c) ==
    /\ calls[c].status = "awaiting"
    /\ LET committed == isLatest(calls[c].requestId) IN
         /\ state' = IF committed THEN commitSuccess(state, c) ELSE state
         /\ calls' = [calls EXCEPT ![c].status = "done", ![c].outcome = "ok",
                        ![c].settled = callerSettle(calls[c].kind,
                                                    fetchDataSettle(FALSE, committed))]
    /\ UNCHANGED <<requestIdRef, isMountedRef, options, effectRan, exec, storeVars>>

\* fetchFunction() of call c rejects and a retry is left: wait retryDelay
fetchRejectRetry(c) ==
    /\ calls[c].status = "awaiting"
    /\ canRetry(calls[c].retryCount)
    /\ calls' = [calls EXCEPT ![c].status = "delay"]
    /\ UNCHANGED <<state, requestIdRef, isMountedRef, options, effectRan, exec, storeVars>>

\* the retry timer of call c fires: fetchData(retryCount + 1) is entered, which
\* takes a new request id, skips the loading update and invokes fetchFunction
retryTimer(c) ==
    /\ calls[c].status = "delay"
    /\ requestIdRef' = requestIdRef + 1
    /\ calls' = [calls EXCEPT ![c].status = "awaiting",
                              ![c].requestId = requestIdRef + 1,
                              ![c].retryCount = calls[c].retryCount + 1]
    /\ UNCHANGED <<state, isMountedRef, options, effectRan, exec, storeVars>>

\* fetchFunction() of call c rejects and no retry is left
fetchRejectFinal(c) ==
    /\ calls[c].status = "awaiting"
    /\ ~canRetry(calls[c].retryCount)
    /\ state' = IF isLatest(calls[c].requestId) THEN commitFailure(state, c) ELSE state
    /\ calls' = [calls EXCEPT ![c].status = "done", ![c].outcome = "fail",
                   ![c].settled = callerSettle(calls[c].kind, fetchDataSettle(TRUE, FALSE))]
    /\ UNCHANGED <<requestIdRef, isMountedRef, options, effectRan, exec, storeVars>>

\* variant: reset() that leaves the request counter alone
reset_KeepsCounter ==
    /\ effectRan /\ isMountedRef
    /\ state' = initialState
    /\ calls' = [c \in DOMAIN calls |-> [calls[c] EXCEPT !.discarded = TRUE]]
    /\ UNCHANGED <<requestIdRef, isMountedRef, options, effectRan, exec, storeVars>>

\* reset()
reset ==
    /\ effectRan /\ isMountedRef
    /\ state' = initialState
    /\ requestIdRef' = 0
    /\ calls' = [c \in DOMAIN calls |-> [calls[c] EXCEPT !.discarded = TRUE]]
    /\ UNCHANGED <<isMountedRef, options, effectRan, exec, storeVars>>

\* variant: markStale() that also clears the error
markStale_ClearsError ==
    /\ effectRan /\ isMountedRef
    /\ state' = [state EXCEPT !.isStale = TRUE, !.error = Null]
    /\ UNCHANGED <<requestIdRef, isMountedRef, options, effectRan, calls, exec, storeVars>>

\* markStale()
markStale ==
    /\ effectRan /\ isMountedRef
    /\ state' = [state EXCEPT !.isStale = TRUE]
    /\ UNCHANGED <<requestIdRef, isMountedRef, options, effectRan, calls, exec, storeVars>>

\* the cleanup of the mount effect (screen unmount)
unmount ==
    /\ effectRan /\ isMountedRef
    /\ isMountedRef' = FALSE
    /\ UNCHANGED <<state, requestIdRef, options, effectRan, calls, exec, storeVars>>


(* ===================== retryWithBackoff (74-101) ======================= *)
(* Every call site passes retries = 3 (lines 169, 199, 349); the model     *)
(* draws the argument from 1..MaxRetriesArg.  With retries >= 1 the throw  *)
(* after the loop (line 100) is never reached: the last iteration returns  *)
(* or rethrows.                                                            *)

\* the 1000 of `1000 * Math.pow(2, i)`
BaseDelay == 1000

NoError == [kind |-> "none", attempt |-> 0]

\* the error the operation raises on its n-th invocation
operationError(n) == [kind |-> "operation", attempt |-> n]

\* the loop condition i < retries
loopGuard(i, retries) == i < retries

\* variant: the last attempt is taken to be the one after `retries` attempts
isLastAttempt_OffByOne(i, retries) == i = retries

\* const isLastAttempt = i === retries - 1
isLastAttempt(i, retries) == i = retries - 1

\* variant: a fixed delay between attempts
waitTime_Fixed(i) == BaseDelay

\* const waitTime = 1000 * Math.pow(2, i)
waitTime(i) == BaseDelay * 2^i

\* variant: the last error wrapped in a new error
rethrow_Wrapped(error) == [kind |-> "RetryExhausted", attempt |-> error.attempt]

\* `throw error` of the last attempt: the caught error itself
rethrow(error) == error

\* the state of one execution on entry to the loop
execStart(retries) ==
    [pc |-> "attempt", retries |-> retries, i |-> 0, attempts |-> 0, failures |-> 0,
     waits |-> <<>>, elapsed |-> 0, lastError |-> NoError, thrown |-> NoError]

\* no execution is running while the fetch controller alone is modelled
execIdle == <<>>

\* `return await operation()` with operation() resolving
opSucceeds(e) ==
    /\ exec[e].pc = "attempt"
    /\ loopGuard(exec[e].i, exec[e].retries)
    /\ exec' = [exec EXCEPT ![e].attempts = @ + 1, ![e].pc = "returned"]
    /\ UNCHANGED <<fetchVars, storeVars>>

\* operation() rejects on an attempt that is not the last: schedule the wait
opFailsRetry(e) ==
    /\ exec[e].pc = "attempt"
    /\ loopGuard(exec[e].i, exec[e].retries)
    /\ ~isLastAttempt(exec[e].i, exec[e].retries)
    /\ exec' = [exec EXCEPT ![e].attempts = @ + 1, ![e].failures = @ + 1,
                           ![e].lastError = operationError(exec[e].attempts + 1),
                           ![e].waits = Append(@, waitTime(exec[e].i)),
                           ![e].pc = "wait"]
    /\ UNCHANGED <<fetchVars, storeVars>>

\* operation() rejects on the last attempt: rethrow
opFailsLast(e) ==
    /\ exec[e].pc = "attempt"
    /\ loopGuard(exec[e].i, exec[e].retries)
    /\ isLastAttempt(exec[e].i, exec[e].retries)
    /\ exec' = [exec EXCEPT ![e].attempts = @ + 1, ![e].failures = @ + 1,
                           ![e].lastError = operationError(exec[e].attempts + 1),
                           ![e].thrown = rethrow(operationError(exec[e].attempts + 1)),
                           ![e].pc = "threw"]
    /\ UNCHANGED <<fetchVars, storeVars>>

\* the setTimeout of the wait fires: next iteration
timerFires(e) ==
    /\ exec[e].pc = "wait"
    /\ exec' = [exec EXCEPT ![e].elapsed = @ + exec[e].waits[Len(exec[e].waits)],
                           ![e].i = @ + 1, ![e].pc = "attempt"]
    /\ UNCHANGED <<fetchVars, storeVars>>

(* ================= the trending collection (104-285) =================== *)
(* A document is [id, movie_id, count, searchTerms, lastSearchTerm,        *)
(* lastSearched, updatedAt]; `docs` lists the collection in the store's    *)
(* own order, the order of creation.  The store stamps $updatedAt on       *)
(* every write; documents with equal stamps are among the initial          *)
(* collections.  The title, poster, release date and vote fields are       *)
(* copied through unread and are left out, as is $createdAt,               *)
(* which line 248 reads only when $updatedAt is missing.                   *)

\* the movies and the search strings of the model
Movies == {41, 42}
Queries == {"batman", "joker"}
\* the movie that concurrent searches are for
SearchedMovies == {41}

\* retryWithBackoff(..., 3, ...) at the call sites of lines 169 and 199
CallRetries == 3
\* Query.limit(100) of cleanupDuplicateMovies
CleanupLimit == 100
\* Query.limit(10) and slice(0, 5) of getTrendingMovies
TrendingLimit == 10
TopCount == 5

Range(s) == {s[k] : k \in DOMAIN s}

NoDoc == [id |-> 0, movie_id |-> 0, count |-> 0, searchTerms |-> <<>>,
          lastSearchTerm |-> "", lastSearched |-> 0, updatedAt |-> 0]

\* the first n elements of a listing (Query.limit(n))
limit(ds, n) == IF Len(ds) <= n THEN ds ELSE SubSeq(ds, 1, n)

\* Query.equal('movie_id', id)
equalMovie(ds, m) == SelectSeq(ds, LAMBDA d : d.movie_id = m)

without_KeepsAll(ds, id) == ds

\* the collection without document `id`
without(ds, id) == SelectSeq(ds, LAMBDA d : d.id # id)

exists(id) == \E k \in DOMAIN docs : docs[k].id = id

\* the time the store stamps on a write made now
stamp == clock + 1

\* the stored document `id`
stored(id) == docs[CHOOSE k \in DOMAIN docs : docs[k].id = id]

\* an update that leaves the patched document alone in the collection
patched_DropsOthers(ds, id, new) == <<new>>

\* updateDocument: the patched document takes the place of the stored one
patched(ds, id, new) ==
    [k \in DOMAIN ds |-> IF ds[k].id = id THEN new ELSE ds[k]]

(* ----------------------- updateSearchCount (104-170) ------------------- *)

updatedSearchTerms_AlwaysAppends(currentSearchTerms, query) ==
    Append(currentSearchTerms, query)

\* currentSearchTerms.includes(query) ? currentSearchTerms : [...currentSearchTerms, query]
updatedSearchTerms(currentSearchTerms, query) ==
    IF query \in Range(currentSearchTerms)
       THEN currentSearchTerms
       ELSE Append(currentSearchTerms, query)

\* variant: the store adds 1 to the count and the query to the terms it holds
updatePatch_FromStored(old, existingDoc, query, t) ==
    [old EXCEPT
        !.count = old.count + 1,
        !.searchTerms = updatedSearchTerms(old.searchTerms, query),
        !.lastSearchTerm = query,
        !.lastSearched = t,
        !.updatedAt = t]

\* the patch of the update branch, computed from the document that was read
updatePatch(old, existingDoc, query, t) ==
    [old EXCEPT
        !.count = existingDoc.count + 1,
        !.searchTerms = updatedSearchTerms(existingDoc.searchTerms, query),
        !.lastSearchTerm = query,
        !.lastSearched = t,
        !.updatedAt = t]

\* the document of the create branch
createdDoc(id, query, m, t) ==
    [id |-> id, movie_id |-> m, count |-> 1, searchTerms |-> <<query>>,
     lastSearchTerm |-> query, lastSearched |-> t, updatedAt |-> t]

trackSearchSettle_NoCatch(inner) == inner

\* trackSearch: try { await updateSearchCount(...) } catch { console.error(...) }
trackSearchSettle(inner) == IF inner = "rejected" THEN "caught" ELSE "tracked"

writerIdle == [pc |-> "idle", query |-> "", movie |-> 0, i |-> 0, existingDoc |-> NoDoc,
               settled |-> "none"]

\* updateSearchCount(query, movie) is called: the first attempt begins
\* (the calls are numbered in the order they are made)
usCall(w, query, m) ==
    /\ writers[w].pc = "idle"
    /\ \A v \in DOMAIN writers : v < w => writers[v].pc # "idle"
    /\ writers' = [writers EXCEPT ![w] = [pc |-> "list", query |-> query, movie |-> m,
                                          i |-> 0, existingDoc |-> NoDoc,
                                          settled |-> "pending"]]
    /\ UNCHANGED <<fetchVars, exec, docs, nextId, clock, recon, trend, events, recorded>>

\* listDocuments([equal('movie_id', movie.id)]) answers: documents[0] if any
usList(w) ==
    /\ writers[w].pc = "list"
    /\ LET result == equalMovie(docs, writers[w].movie) IN
         writers' = [writers EXCEPT
            ![w].existingDoc = IF Len(result) > 0 THEN result[1] ELSE NoDoc,
            ![w].pc = "write"]
    /\ UNCHANGED <<fetchVars, exec, docs, nextId, clock, recon, trend, events, recorded>>

\* updateDocument / createDocument answers
usWrite(w) ==
    /\ writers[w].pc = "write"
    /\ LET t == stamp IN
         /\ clock' = t
         /\ IF writers[w].existingDoc # NoDoc
               THEN /\ exists(writers[w].existingDoc.id)
                    /\ docs' = patched(docs, writers[w].existingDoc.id,
                                       updatePatch(stored(writers[w].existingDoc.id),
                                           writers[w].existingDoc, writers[w].query, t))
                    /\ UNCHANGED nextId
               ELSE /\ docs' = Append(docs, createdDoc(nextId, writers[w].query,
                                                       writers[w].movie, t))
                    /\ nextId' = nextId + 1
    /\ writers' = [writers EXCEPT ![w].pc = "done",
                                  ![w].settled = trackSearchSettle("resolved")]
    /\ events' = [events EXCEPT ![writers[w].movie] = @ + 1]
    /\ recorded' = [recorded EXCEPT ![writers[w].movie] = @ \cup {writers[w].query}]
    /\ UNCHANGED <<fetchVars, exec, recon, trend>>

\* the effect of the search screen: with a query and movies loaded it tracks
\* the search for the first movie
trackSearch(w, query, m) ==
    /\ state.data # Null
    /\ ~state.loading
    /\ usCall(w, query, m)

\* the remote call of the attempt rejects (the update of a document that is
\* gone always does): the attempt is over; after waitTime(i) the operation is
\* run again from its listDocuments, unless this was the last attempt
usAttemptFails(w) ==
    /\ writers[w].pc \in {"list", "write"}
    /\ writers' = [writers EXCEPT
          ![w].pc = IF isLastAttempt(writers[w].i, CallRetries) THEN "failed" ELSE "list",
          ![w].i = IF isLastAttempt(writers[w].i, CallRetries) THEN @ ELSE @ + 1,
          ![w].settled = IF isLastAttempt(writers[w].i, CallRetries)
                            THEN trackSearchSettle("rejected") ELSE @,
          ![w].existingDoc = NoDoc]
    /\ UNCHANGED <<fetchVars, exec, docs, nextId, clock, recon, trend, events, recorded>>

(* -------------------- cleanupDuplicateMovies (207-285) ----------------- *)

totalCount_CountsDocuments(ds) == Len(ds)

\* docs.reduce((sum, doc) => sum + (doc.count || 0), 0)
RECURSIVE totalCount(_)
totalCount(ds) == IF ds = <<>> THEN 0 ELSE Head(ds).count + totalCount(Tail(ds))

unique_KeepsAll(list) == list

\* [...new Set(list)]: the first occurrence of each element, in order
RECURSIVE unique(_)
unique(list) ==
    IF list = <<>> THEN <<>>
    ELSE LET front == unique(SubSeq(list, 1, Len(list) - 1))
             x == list[Len(list)]
         IN IF x \in Range(front) THEN front ELSE Append(front, x)

\* variant: the terms of the documents one after another
RECURSIVE allSearchTerms_Concatenates(_)
allSearchTerms_Concatenates(ds) ==
    IF ds = <<>> THEN <<>>
    ELSE Head(ds).searchTerms \o allSearchTerms_Concatenates(Tail(ds))

\* docs.reduce((terms, doc) => [...new Set([...terms, ...doc.searchTerms])], [])
RECURSIVE allSearchTerms(_)
allSearchTerms(ds) ==
    IF ds = <<>> THEN <<>>
    ELSE unique(allSearchTerms(SubSeq(ds, 1, Len(ds) - 1)) \o ds[Len(ds)].searchTerms)

\* variant: d is put before its equals
RECURSIVE insertByUpdatedAt_BeforeEquals(_, _)
insertByUpdatedAt_BeforeEquals(sorted, d) ==
    IF sorted = <<>> THEN <<d>>
    ELSE IF Head(sorted).updatedAt > d.updatedAt
            THEN <<Head(sorted)>> \o insertByUpdatedAt_BeforeEquals(Tail(sorted), d)
            ELSE <<d>> \o sorted

\* d put into a list sorted by $updatedAt descending, behind its equals
RECURSIVE insertByUpdatedAt(_, _)
insertByUpdatedAt(sorted, d) ==
    IF sorted = <<>> THEN <<d>>
    ELSE IF Head(sorted).updatedAt >= d.updatedAt
            THEN <<Head(sorted)>> \o insertByUpdatedAt(Tail(sorted), d)
            ELSE <<d>> \o sorted

\* docs.sort((a, b) => time(b) - time(a)): most recent first, equals in list order
RECURSIVE sortedDocs(_)
sortedDocs(ds) ==
    IF ds = <<>> THEN <<>>
    ELSE insertByUpdatedAt(sortedDocs(SubSeq(ds, 1, Len(ds) - 1)), ds[Len(ds)])

\* allSearchTerms[allSearchTerms.length - 1] || ''
lastOf(terms) == IF terms = <<>> THEN "" ELSE terms[Len(terms)]

\* the patch written to the kept document
mergePatch(old, group, t) ==
    [old EXCEPT
        !.count = totalCount(group),
        !.searchTerms = allSearchTerms(group),
        !.lastSearchTerm = lastOf(allSearchTerms(group)),
        !.lastSearched = t,
        !.updatedAt = t]

\* the keys of movieGroups that hold more than one document
duplicateKeys(allDocs) ==
    {m \in {allDocs[k].movie_id : k \in DOMAIN allDocs} : Len(equalMovie(allDocs, m)) > 1}

\* Object.entries visits integer keys in ascending order: the next key with
\* duplicates after `m`, 0 when the loop is over
nextKey(allDocs, m) ==
    LET later == {g \in duplicateKeys(allDocs) : g > m}
    IN IF later = {} THEN 0 ELSE CHOOSE g \in later : \A h \in later : g <= h

returned_CountsGroupsTwice(found, removed, failed) ==
    [duplicatesFound |-> found, duplicatesRemoved |-> found, error |-> failed]

\* what a run returns
returned(found, removed, failed) ==
    [duplicatesFound |-> found, duplicatesRemoved |-> removed, error |-> failed]

\* the catch of the run: { duplicatesFound: 0, duplicatesRemoved: 0, error }
caught(found, removed) == returned(0, 0, TRUE)

\* `deleted` counts the deleteDocument calls of the run that were answered,
\* `listed` is what `events` was when the run listed the collection
reconIdle ==
    [pc |-> "idle", allDocs |-> <<>>, movie |-> 0, i |-> 0, duplicatesFound |-> 0,
     duplicatesRemoved |-> 0, deleted |-> 0, listed |-> [m \in Movies |-> 0],
     results |-> <<>>]

\* the run of instance r moves on to the group after `m`, or returns
cdAdvance(r, run, m) ==
    LET g == nextKey(run.allDocs, m) IN
      IF g = 0
         THEN [run EXCEPT !.pc = "done", !.movie = 0, !.i = 0,
                 !.results = Append(@, returned(run.duplicatesFound,
                                                run.duplicatesRemoved, FALSE))]
         ELSE [run EXCEPT !.pc = "update", !.movie = g, !.i = 0,
                 !.duplicatesFound = @ + 1]

\* cleanupDuplicateMovies() is called and listDocuments([limit(100)]) answers:
\* the documents are grouped and the first group with duplicates is entered
cdList(r) ==
    /\ recon[r].pc \in {"idle", "done"}
    /\ Len(recon[r].results) < MaxRuns
    /\ recon' = [recon EXCEPT ![r] =
          cdAdvance(r, [recon[r] EXCEPT !.allDocs = limit(docs, CleanupLimit),
                                        !.duplicatesFound = 0, !.duplicatesRemoved = 0,
                                        !.deleted = 0, !.listed = events], 0)]
    /\ UNCHANGED <<fetchVars, exec, docs, nextId, clock, writers, trend, events, recorded>>

\* the listDocuments of the run rejects
cdListFails(r) ==
    /\ recon[r].pc \in {"idle", "done"}
    /\ Len(recon[r].results) < MaxRuns
    /\ recon' = [recon EXCEPT ![r].pc = "done", ![r].allDocs = <<>>,
                             ![r].movie = 0, ![r].i = 0,
                             ![r].duplicatesFound = 0, ![r].duplicatesRemoved = 0,
                             ![r].deleted = 0, ![r].listed = events,
                             ![r].results = Append(@, caught(0, 0))]
    /\ UNCHANGED <<fetchVars, exec, docs, nextId, clock, writers, trend, events, recorded>>

\* updateDocument(keepDoc.$id, merged data) answers
cdUpdate(r) ==
    /\ recon[r].pc = "update"
    /\ LET group == equalMovie(recon[r].allDocs, recon[r].movie)
           keepDoc == sortedDocs(group)[1]
       IN /\ exists(keepDoc.id)
          /\ LET t == stamp IN
               /\ clock' = t
               /\ docs' = patched(docs, keepDoc.id,
                                  mergePatch(stored(keepDoc.id), group, t))
    /\ recon' = [recon EXCEPT ![r].pc = "delete", ![r].i = 1]
    /\ UNCHANGED <<fetchVars, exec, nextId, writers, trend, events, recorded>>

\* deleteDocument(sortedDocs[i].$id) answers; after the last one the loop goes
\* on to the next group or the run returns its counts
cdDelete(r) ==
    /\ recon[r].pc = "delete"
    /\ LET sorted == sortedDocs(equalMovie(recon[r].allDocs, recon[r].movie))
           target == sorted[recon[r].i + 1]
           counted == [recon[r] EXCEPT !.duplicatesRemoved = @ + 1, !.deleted = @ + 1,
                                       !.i = @ + 1]
       IN /\ exists(target.id)
          /\ docs' = without(docs, target.id)
          /\ recon' = [recon EXCEPT ![r] =
                IF counted.i < Len(sorted)
                   THEN counted
                   ELSE cdAdvance(r, counted, recon[r].movie)]
    /\ UNCHANGED <<fetchVars, exec, nextId, clock, writers, trend, events, recorded>>

\* the updateDocument or deleteDocument of the run rejects (it always does when
\* the document is gone): the catch returns
cdStepFails(r) ==
    /\ recon[r].pc \in {"update", "delete"}
    /\ recon' = [recon EXCEPT ![r].pc = "done",
                    ![r].results = Append(@, caught(recon[r].duplicatesFound,
                                                    recon[r].duplicatesRemoved))]
    /\ UNCHANGED <<fetchVars, exec, docs, nextId, clock, writers, trend, events, recorded>>

(* ---------------------- getTrendingMovies (172-204) -------------------- *)

countDescending_AnyOrder(ds) ==
    LET n == Len(ds)
        orders == {p \in [1..n -> 1..n] : \A a, b \in 1..n : a # b => p[a] # p[b]}
    IN {[k \in 1..n |-> ds[p[k]]] : p \in orders}

\* the listings the store may return for orderDesc('count'): every order of the
\* collection with the counts descending (the order among equal counts is the store's)
RECURSIVE countDescendingFrom(_, _)
countDescendingFrom(ds, K) ==
    IF K = {} THEN {<<>>}
    ELSE LET top == {k \in K : \A j \in K : ds[k].count >= ds[j].count}
         IN UNION {{<<ds[k]>> \o rest : rest \in countDescendingFrom(ds, K \ {k})} :
                   k \in top}

countDescending(ds) == countDescendingFrom(ds, DOMAIN ds)

uniqueMovies_KeepsAll(documents) == documents

\* result.documents.reduce(...): the first document of each movie_id, in order
RECURSIVE uniqueMovies(_)
uniqueMovies(documents) ==
    IF documents = <<>> THEN <<>>
    ELSE LET front == uniqueMovies(SubSeq(documents, 1, Len(documents) - 1))
             movie == documents[Len(documents)]
         IN IF \E m \in Range(front) : m.movie_id = movie.movie_id
               THEN front ELSE Append(front, movie)

\* the dedup pass without the slice
topMovies_NoSlice(documents) == uniqueMovies(documents)

\* uniqueMovies.slice(0, 5)
topMovies(documents) == limit(uniqueMovies(documents), TopCount)

trendIdle == [pc |-> "idle", i |-> 0, documents |-> <<>>, result |-> <<>>, failed |-> FALSE]

\* getTrendingMovies() is called: the first attempt begins
gtCall ==
    /\ trend.pc \in {"idle", "done"}
    /\ trend' = [trendIdle EXCEPT !.pc = "query"]
    /\ UNCHANGED <<fetchVars, exec, docs, nextId, clock, writers, recon, events, recorded>>

\* listDocuments([limit(10), orderDesc('count')]) answers
gtList ==
    /\ trend.pc = "query"
    /\ \E listing \in countDescending(docs) :
         trend' = [trend EXCEPT !.pc = "done",
                                !.documents = limit(listing, TrendingLimit),
                                !.result = topMovies(limit(listing, TrendingLimit))]
    /\ UNCHANGED <<fetchVars, exec, docs, nextId, clock, writers, recon, events, recorded>>

\* the listDocuments of the attempt rejects: retry after waitTime(i), or, on the
\* last attempt, the catch of getTrendingMovies returns []
gtAttemptFails ==
    /\ trend.pc = "query"
    /\ trend' = IF isLastAttempt(trend.i, CallRetries)
                   THEN [trend EXCEPT !.pc = "done", !.documents = <<>>, !.result = <<>>,
                                      !.failed = TRUE]
                   ELSE [trend EXCEPT !.i = @ + 1]
    /\ UNCHANGED <<fetchVars, exec, docs, nextId, clock, writers, recon, events, recorded>>

\* variant: getTrendingMovies without its catch
gtSettle_NoCatch(pc) ==
    IF pc = "threw" THEN [settled |-> "rejected", value |-> "none"]
    ELSE [settled |-> "resolved", value |-> "top"]

\* how the promise of getTrendingMovies settles once its retryWithBackoff has
\* returned or thrown: the top movies, or the [] of the catch
gtSettle(pc) ==
    IF pc = "threw" THEN [settled |-> "resolved", value |-> "empty"]
    ELSE [settled |-> "resolved", value |-> "top"]

(* ========================== specifications ============================ *)

\* the collection and its clients while another part is modelled alone
storeUnused ==
    /\ docs = <<>>
    /\ nextId = 1
    /\ clock = 0
    /\ writers = <<>>
    /\ recon = <<>>
    /\ trend = trendIdle
    /\ events = [m \in Movies |-> 0]
    /\ recorded = [m \in Movies |-> {}]

\* the controller and the executions while the collection is modelled
fetchUnused ==
    /\ state = initialState
    /\ requestIdRef = 0
    /\ isMountedRef = TRUE
    /\ options = [autoFetch |-> FALSE, retries |-> 0]
    /\ effectRan = FALSE
    /\ calls = <<>>
    /\ exec = execIdle

\* the search events and terms a collection stands for
eventsOf(ds) == [m \in Movies |-> totalCount(equalMovie(ds, m))]
recordedOf(ds) ==
    [m \in Movies |-> UNION {Range(ds[k].searchTerms) : k \in {j \in DOMAIN ds : ds[j].movie_id = m}}]


InitFetch ==
    /\ state = initialState
    /\ requestIdRef = 0
    /\ isMountedRef = TRUE
    /\ options \in [autoFetch : BOOLEAN, retries : 0..MaxRetriesOpt]
    /\ effectRan = FALSE
    /\ calls = <<>>
    /\ exec = execIdle
    /\ storeUnused

NextFetch ==
    \/ mountEffect
    \/ refetch
    \/ \E c \in DOMAIN calls : fetchResolve(c)
    \/ \E c \in DOMAIN calls : fetchRejectRetry(c)
    \/ \E c \in DOMAIN calls : retryTimer(c)
    \/ \E c \in DOMAIN calls : fetchRejectFinal(c)
    \/ reset
    \/ markStale
    \/ unmount

SpecFetch == InitFetch /\ [][NextFetch]_vars

\* the invocation of fetchFunction that call c awaits completes
completes(c) ==
    /\ c \in DOMAIN calls
    /\ (fetchResolve(c) \/ fetchRejectRetry(c) \/ fetchRejectFinal(c))

\* the retry delay of call c elapses
elapses(c) == c \in DOMAIN calls /\ retryTimer(c)

(* The controller when every invocation of fetchFunction completes and    *)
(* every retry timer fires.                                                *)
SpecFetchFair ==
    /\ SpecFetch
    /\ \A c \in 1..MaxCalls : WF_vars(completes(c)) /\ WF_vars(elapses(c))

(* The home screen: useFetch(getTrendingMovies) with the default options. *)
(* Each fetchData call invokes getTrendingMovies, which runs its store     *)
(* query in a retryWithBackoff execution of its own (exec[c] for call c).  *)
InitHome ==
    /\ state = initialState
    /\ requestIdRef = 0
    /\ isMountedRef = TRUE
    /\ options = [autoFetch |-> TRUE, retries |-> 0]
    /\ effectRan = FALSE
    /\ calls = <<>>
    /\ exec = <<>>
    /\ storeUnused

\* the auto-fetch on mount: fetchData() calls getTrendingMovies()
homeMount ==
    /\ ~effectRan
    /\ effectRan' = TRUE
    /\ startFetch("auto")
    /\ exec' = Append(exec, execStart(CallRetries))
    /\ UNCHANGED <<isMountedRef, options, storeVars>>

\* refetchTrending(): after a cleanup that removed duplicates, or on refresh
homeRefetch ==
    /\ effectRan /\ isMountedRef
    /\ Len(calls) < MaxCalls
    /\ startFetch("refetch")
    /\ exec' = Append(exec, execStart(CallRetries))
    /\ UNCHANGED <<isMountedRef, options, effectRan, storeVars>>

\* getTrendingMovies() of call c settles and fetchData goes on after its await
homeSettle(c) ==
    /\ exec[c].pc \in {"returned", "threw"}
    /\ IF gtSettle(exec[c].pc).settled = "rejected"
          THEN fetchRejectFinal(c)
          ELSE fetchResolve(c)

NextHome ==
    \/ homeMount
    \/ homeRefetch
    \/ \E e \in DOMAIN exec : opSucceeds(e)
    \/ \E e \in DOMAIN exec : opFailsRetry(e)
    \/ \E e \in DOMAIN exec : opFailsLast(e)
    \/ \E e \in DOMAIN exec : timerFires(e)
    \/ \E c \in DOMAIN calls : homeSettle(c)
    \/ unmount

SpecHome == InitHome /\ [][NextHome]_vars

InitRetry ==
    /\ state = initialState
    /\ requestIdRef = 0
    /\ isMountedRef = TRUE
    /\ options = [autoFetch |-> FALSE, retries |-> 0]
    /\ effectRan = FALSE
    /\ calls = <<>>
    /\ exec \in [1..NumExec -> {execStart(r) : r \in 1..MaxRetriesArg}]
    /\ storeUnused

NextRetry ==
    \/ \E e \in 1..NumExec : opSucceeds(e)
    \/ \E e \in 1..NumExec : opFailsRetry(e)
    \/ \E e \in 1..NumExec : opFailsLast(e)
    \/ \E e \in 1..NumExec : timerFires(e)

SpecRetry == InitRetry /\ [][NextRetry]_vars

(* The search screen: useFetch(() => fetchMovies(...), true), which leaves  *)
(* autoFetch and retries at their defaults, and the effect that tracks a   *)
(* search once movies are loaded.  The query stays the same.              *)
debouncedQuery == "batman"

InitSearch ==
    /\ state = initialState
    /\ requestIdRef = 0
    /\ isMountedRef = TRUE
    /\ options = [autoFetch |-> TRUE, retries |-> 0]
    /\ effectRan = FALSE
    /\ calls = <<>>
    /\ exec = execIdle
    /\ docs = <<>>
    /\ nextId = 1
    /\ clock = 0
    /\ writers = [w \in 1..NumWriters |-> writerIdle]
    /\ recon = <<>>
    /\ trend = trendIdle
    /\ events = eventsOf(docs)
    /\ recorded = recordedOf(docs)

NextSearch ==
    \/ mountEffect
    \/ refetch
    \/ \E c \in DOMAIN calls : fetchResolve(c)
    \/ \E c \in DOMAIN calls : fetchRejectFinal(c)
    \/ unmount
    \/ \E w \in DOMAIN writers, m \in SearchedMovies : trackSearch(w, debouncedQuery, m)
    \/ \E w \in DOMAIN writers : usList(w)
    \/ \E w \in DOMAIN writers : usWrite(w)
    \/ \E w \in DOMAIN writers : usAttemptFails(w)

SpecSearch == InitSearch /\ [][NextSearch]_vars

(* Concurrent updateSearchCount calls for one movie and the cleanup runs   *)
(* of one app instance, on a collection that is empty or holds what one    *)
(* earlier search left.  Collections with several movies are drawn by      *)
(* InitCollection below.                                                   *)
SeedStores == {<<>>, <<createdDoc(1, "batman", 41, 1)>>}

InitStore ==
    /\ fetchUnused
    /\ docs \in SeedStores
    /\ nextId = Len(docs) + 1
    /\ clock = Len(docs)
    /\ writers = [w \in 1..NumWriters |-> writerIdle]
    /\ recon = [r \in 1..1 |-> reconIdle]
    /\ trend = trendIdle
    /\ events = eventsOf(docs)
    /\ recorded = recordedOf(docs)

NextStore ==
    \/ \E w \in DOMAIN writers, q \in Queries, m \in SearchedMovies : usCall(w, q, m)
    \/ \E w \in DOMAIN writers : usList(w)
    \/ \E w \in DOMAIN writers : usWrite(w)
    \/ \E w \in DOMAIN writers : usAttemptFails(w)
    \/ \E r \in DOMAIN recon : cdList(r)
    \/ \E r \in DOMAIN recon : cdListFails(r)
    \/ \E r \in DOMAIN recon : cdUpdate(r)
    \/ \E r \in DOMAIN recon : cdDelete(r)
    \/ \E r \in DOMAIN recon : cdStepFails(r)

SpecStore == InitStore /\ [][NextStore]_vars

(* Several app instances: each runs the cleanup when its home screen       *)
(* mounts, while searches are tracked, on a collection that is empty or    *)
(* holds the two documents that two overlapping searches left.             *)
FragmentedStores ==
    {<<>>, <<createdDoc(1, "batman", 41, 1), createdDoc(2, "joker", 41, 2)>>}

InitInstances ==
    /\ fetchUnused
    /\ docs \in FragmentedStores
    /\ nextId = Len(docs) + 1
    /\ clock = Len(docs)
    /\ writers = [w \in 1..NumWriters |-> writerIdle]
    /\ recon = [r \in 1..NumInstances |-> reconIdle]
    /\ trend = trendIdle
    /\ events = eventsOf(docs)
    /\ recorded = recordedOf(docs)

\* the document the next remote call of instance r's run addresses
cdTarget(r) ==
    LET sorted == sortedDocs(equalMovie(recon[r].allDocs, recon[r].movie))
    IN IF recon[r].pc = "update" THEN sorted[1] ELSE sorted[recon[r].i + 1]

\* the store rejects the update or delete of a document that is gone
cdStepGone(r) ==
    /\ recon[r].pc \in {"update", "delete"}
    /\ ~exists(cdTarget(r).id)
    /\ cdStepFails(r)

\* the store rejects the update of a document that is gone
usWriteGone(w) ==
    /\ writers[w].pc = "write"
    /\ writers[w].existingDoc # NoDoc
    /\ ~exists(writers[w].existingDoc.id)
    /\ usAttemptFails(w)

\* no remote call fails but those that address a document that is gone
NextInstances ==
    \/ \E w \in DOMAIN writers, q \in Queries, m \in SearchedMovies : usCall(w, q, m)
    \/ \E w \in DOMAIN writers : usList(w)
    \/ \E w \in DOMAIN writers : usWrite(w)
    \/ \E w \in DOMAIN writers : usWriteGone(w)
    \/ \E r \in DOMAIN recon : cdList(r)
    \/ \E r \in DOMAIN recon : cdUpdate(r)
    \/ \E r \in DOMAIN recon : cdDelete(r)
    \/ \E r \in DOMAIN recon : cdStepGone(r)

SpecInstances == InitInstances /\ [][NextInstances]_vars

(* The three store operations of one app instance side by side: a search  *)
(* is tracked, the cleanup runs and the home screen asks for the trending  *)
(* movies, on a collection that is empty or holds the two documents that   *)
(* two overlapping searches left.                                          *)
InitLifecycle ==
    /\ fetchUnused
    /\ docs \in FragmentedStores
    /\ nextId = Len(docs) + 1
    /\ clock = Len(docs)
    /\ writers = [w \in 1..1 |-> writerIdle]
    /\ recon = [r \in 1..1 |-> reconIdle]
    /\ trend = trendIdle
    /\ events = eventsOf(docs)
    /\ recorded = recordedOf(docs)

NextLifecycle ==
    \/ NextStore
    \/ gtCall
    \/ gtList
    \/ gtAttemptFails

SpecLifecycle == InitLifecycle /\ [][NextLifecycle]_vars

(* The calls one after another, each awaited before the next is made (the  *)
(* search screen awaits updateSearchCount), with no remote call failing    *)
(* and no cleanup running.                                                 *)
inFlight(w) == writers[w].pc \in {"list", "write"}

usCallAwaited(w, query, m) ==
    /\ \A v \in DOMAIN writers : ~inFlight(v)
    /\ usCall(w, query, m)

NextSequential ==
    \/ \E w \in DOMAIN writers, q \in Queries, m \in Movies : usCallAwaited(w, q, m)
    \/ \E w \in DOMAIN writers : usList(w)
    \/ \E w \in DOMAIN writers : usWrite(w)

SpecSequential == InitStore /\ [][NextSequential]_vars

(* A collection as concurrent writers and earlier runs can leave it, with  *)
(* duplicates: every document was searched once per term it lists.  The   *)
(* ids are the store's ('unique()'): they rise or fall along the listing.  *)
TermLists == {<<"batman">>, <<"joker">>, <<"batman", "joker">>}

docShapes == [movie_id : Movies, searchTerms : TermLists, updatedAt : 1..2]

\* the spec's example: three rows of movie 42, counts 3, 1, 2
exampleStore ==
    << [id |-> 1, movie_id |-> 42, count |-> 3, searchTerms |-> <<"batman">>,
        lastSearchTerm |-> "batman", lastSearched |-> 1, updatedAt |-> 1],
       [id |-> 2, movie_id |-> 42, count |-> 1, searchTerms |-> <<"dark knight">>,
        lastSearchTerm |-> "dark knight", lastSearched |-> 2, updatedAt |-> 2],
       [id |-> 3, movie_id |-> 42, count |-> 2, searchTerms |-> <<"batman", "joker">>,
        lastSearchTerm |-> "joker", lastSearched |-> 2, updatedAt |-> 2] >>

storedDoc(shape, id) ==
    [id |-> id, movie_id |-> shape.movie_id, count |-> Len(shape.searchTerms),
     searchTerms |-> shape.searchTerms, lastSearchTerm |-> lastOf(shape.searchTerms),
     lastSearched |-> shape.updatedAt, updatedAt |-> shape.updatedAt]

\* the listing of documents of the given shapes
listing(shapes, rising) ==
    [k \in DOMAIN shapes |->
        storedDoc(shapes[k], IF rising THEN k ELSE Len(shapes) + 1 - k)]

InitStores(ds) ==
    \/ ds = exampleStore
    \/ \E n \in 0..MaxInitDocs, rising \in BOOLEAN :
          \E shapes \in [1..n -> docShapes] : ds = listing(shapes, rising)

InitCollection ==
    /\ fetchUnused
    /\ InitStores(docs)
    /\ nextId = Len(docs) + 1
    /\ clock = 2
    /\ writers = <<>>
    /\ events = eventsOf(docs)
    /\ recorded = recordedOf(docs)

InitReconcile ==
    /\ InitCollection
    /\ recon = [r \in 1..1 |-> reconIdle]
    /\ trend = trendIdle

NextReconcile ==
    \/ \E r \in DOMAIN recon : cdList(r)
    \/ \E r \in DOMAIN recon : cdListFails(r)
    \/ \E r \in DOMAIN recon : cdUpdate(r)
    \/ \E r \in DOMAIN recon : cdDelete(r)
    \/ \E r \in DOMAIN recon : cdStepFails(r)

SpecReconcile == InitReconcile /\ [][NextReconcile]_vars

InitTrend ==
    /\ InitCollection
    /\ recon = <<>>
    /\ trend = trendIdle

NextTrend ==
    \/ gtCall
    \/ gtList
    \/ gtAttemptFails

SpecTrend == InitTrend /\ [][NextTrend]_vars

(* Collections larger than the page of a trending query: copies[m]         *)
(* documents of each movie m, movie after movie, with counts falling       *)
(* along the listing, so that the count-descending listing is the          *)
(* collection as it stands.                                                *)
RECURSIVE blocks(_, _)
blocks(copies, m) ==
    IF m = 0 THEN <<>>
    ELSE blocks(copies, m - 1) \o [k \in 1..copies[m] |-> m]

pageDoc(m, id, count) ==
    [id |-> id, movie_id |-> m, count |-> count, searchTerms |-> <<"batman">>,
     lastSearchTerm |-> "batman", lastSearched |-> 1, updatedAt |-> 1]

collectionOf(copies) ==
    LET movie == blocks(copies, NumMovies)
    IN [k \in DOMAIN movie |-> pageDoc(movie[k], k, Len(movie) + 1 - k)]

InitPage ==
    /\ fetchUnused
    /\ \E copies \in [1..NumMovies -> 0..MaxCopies] : docs = collectionOf(copies)
    /\ nextId = Len(docs) + 1
    /\ clock = 1
    /\ writers = <<>>
    /\ recon = <<>>
    /\ trend = trendIdle
    /\ events = eventsOf(docs)
    /\ recorded = recordedOf(docs)

SpecPage == InitPage /\ [][NextTrend]_vars

(* ============================== claims ================================= *)

\* every issued call has settled, the screen is mounted, no reset intervened
AllSettled ==
    /\ calls # <<>>
    /\ \A c \in DOMAIN calls : calls[c].status = "done" /\ ~calls[c].discarded

\* C1: once every overlapping fetch()/refetch() call has settled, the committed
\* data/error is the outcome of the call issued last, whatever the completion
\* order and whatever retries happened.
C1_LastIssuedWins ==
    (isMountedRef /\ AllSettled) =>
        LET last == Len(calls) IN
          /\ calls[last].outcome = "ok" => (state.data = last /\ state.error = Null)
          /\ calls[last].outcome = "fail" => state.error = last

\* C2: a successful completion commits (data set, loading and isStale false)
\* exactly when its request id still equals requestIdRef and the component is
\* mounted; any other successful completion leaves the whole state unchanged.
C2_CommitOnlyIfCurrent ==
    [][\A c \in DOMAIN calls :
         fetchResolve(c) =>
            IF calls[c].requestId = requestIdRef /\ isMountedRef
               THEN /\ state'.data = c
                    /\ state'.loading = FALSE
                    /\ state'.isStale = FALSE
               ELSE state' = state]_vars

\* C2 witness: a superseded success was dropped while another call's result is shown
C2_Witness ==
    \E c, d \in DOMAIN calls :
        /\ c # d
        /\ calls[c].outcome = "ok" /\ calls[c].settled = "null"
        /\ calls[d].settled = "value" /\ state.data = d

\* C3: while the most recently issued fetch() is outstanding (in flight, not
\* discarded by reset()), loading is true.
C3_LoadingWhileOutstanding ==
    (calls # <<>>) =>
        LET last == Len(calls) IN
          (calls[last].status # "done" /\ ~calls[last].discarded) => state.loading

\* C4: a terminal failure of the current attempt sets error to that failure and
\* loading to false, sets isStale exactly when data was already present, and
\* leaves data unchanged.
C4_TerminalFailure ==
    [][\A c \in DOMAIN calls :
         (fetchRejectFinal(c) /\ calls[c].requestId = requestIdRef /\ isMountedRef) =>
            /\ state'.error = c
            /\ state'.loading = FALSE
            /\ state'.isStale = (state.data # Null)
            /\ state'.data = state.data]_vars

\* C4 witness: StaleError, a failed refetch shown over an earlier call's data
C4_Witness ==
    \E c, d \in DOMAIN calls :
        /\ calls[c].outcome = "fail" /\ state.error = c
        /\ c # d /\ state.data = d
        /\ state.isStale /\ ~state.loading

\* C5: refetch() never rejects: it resolves to the value when its result was
\* committed and to null otherwise (terminal failure, superseded, torn down).
C5_RefetchNeverRejects ==
    \A c \in DOMAIN calls :
        calls[c].kind = "refetch" =>
            /\ calls[c].settled # "rejected"
            /\ calls[c].status = "done" => calls[c].settled \in {"value", "null"}
            /\ calls[c].outcome = "fail" => calls[c].settled = "null"

\* C5 witness: a refetch() failed terminally, left its error in the state and resolved
C5_Witness ==
    \E c \in DOMAIN calls :
        /\ calls[c].kind = "refetch" /\ calls[c].outcome = "fail"
        /\ calls[c].settled = "null" /\ state.error = c

\* C6: reset() in any state yields data absent, loading false, error absent,
\* isStale false and the request counter 0.
C6_ResetClearsAll ==
    [][reset =>
         /\ state'.data = Null
         /\ state'.loading = FALSE
         /\ state'.error = Null
         /\ state'.isStale = FALSE
         /\ requestIdRef' = 0]_vars

\* C6 witness: reset() was called while a fetch was in flight
C6_Witness ==
    /\ state = initialState /\ requestIdRef = 0
    /\ \E c \in DOMAIN calls : calls[c].discarded /\ calls[c].status = "awaiting"

\* C7: markStale() sets isStale and leaves data, error, loading and the request
\* counter unchanged.
C7_MarkStaleFrame ==
    [][markStale =>
         /\ state'.isStale = TRUE
         /\ state'.data = state.data
         /\ state'.error = state.error
         /\ state'.loading = state.loading
         /\ requestIdRef' = requestIdRef]_vars

\* C7 witness: stale with an error and no data, which only markStale() produces
C7_Witness == state.isStale /\ state.data = Null /\ state.error # Null

\* C8 as stated: a call that fails has made retries + 1 attempts.
C8_AttemptsRetriesPlusOne ==
    \A e \in 1..NumExec :
        exec[e].pc = "threw" => exec[e].attempts = exec[e].retries + 1

\* C8 amended: the argument counts attempts.  At most `retries` attempts are
\* made; a success after k failures (k <= retries - 1) took k + 1 attempts; a
\* call that fails made exactly `retries` attempts, all failed; the loop never
\* runs past them.
C8_AttemptsEqualRetries ==
    \A e \in 1..NumExec :
        /\ exec[e].attempts <= exec[e].retries
        /\ exec[e].pc = "threw" =>
              (exec[e].attempts = exec[e].retries /\ exec[e].failures = exec[e].retries)
        /\ exec[e].pc = "returned" =>
              (exec[e].attempts = exec[e].failures + 1
               /\ exec[e].failures <= exec[e].retries - 1)
        /\ exec[e].pc = "attempt" =>
              (exec[e].i < exec[e].retries /\ exec[e].attempts = exec[e].i)

\* C8 witness: the call sites' retries = 3, exhausted after 3 attempts
C8_Witness ==
    \E e \in 1..NumExec :
        exec[e].pc = "threw" /\ exec[e].retries = 3 /\ exec[e].attempts = 3

\* the sum of BaseDelay * 2^i for i in 0..k-1
RECURSIVE SumDelays(_)
SumDelays(k) == IF k = 0 THEN 0 ELSE SumDelays(k - 1) + BaseDelay * 2^(k - 1)

\* C9: the wait after failed attempt i (0-indexed) is BaseDelay * 2^i, there is
\* no wait after the final attempt, and a success after k failures has waited
\* the sum of BaseDelay * 2^i for i in 0..k-1 in total.
C9_BackoffDelays ==
    \A e \in 1..NumExec :
        /\ \A j \in DOMAIN exec[e].waits : exec[e].waits[j] = BaseDelay * 2^(j - 1)
        /\ Len(exec[e].waits) =
              IF exec[e].pc = "threw" THEN exec[e].failures - 1 ELSE exec[e].failures
        /\ exec[e].pc = "returned" => exec[e].elapsed = SumDelays(exec[e].failures)

\* C9 witness: three failures, then success, after 1000 + 2000 + 4000 ms of waiting
C9_Witness ==
    \E e \in 1..NumExec :
        exec[e].pc = "returned" /\ exec[e].failures = 3 /\ exec[e].elapsed = 7000

\* C10 as stated: the call fails with a RetryExhausted error wrapping the last error.
C10_ThrowsRetryExhausted ==
    \A e \in 1..NumExec :
        exec[e].pc = "threw" =>
            (exec[e].thrown.kind = "RetryExhausted"
             /\ exec[e].thrown.attempt = exec[e].attempts)

\* C10 amended: the call fails with the error of its last attempt itself,
\* rethrown as it was caught.
C10_RethrowsLastError ==
    \A e \in 1..NumExec :
        exec[e].pc = "threw" =>
            (exec[e].thrown = operationError(exec[e].retries)
             /\ exec[e].thrown = exec[e].lastError)

\* C10 witness: several attempts failed and the last one's error came out
C10_Witness ==
    \E e \in 1..NumExec :
        /\ exec[e].pc = "threw" /\ exec[e].retries = 3
        /\ exec[e].thrown = operationError(3)


(* ---------------------------- claims C11..C20 -------------------------- *)

\* the documents of movie m in the collection
aggregates(m) == equalMovie(docs, m)

\* a list without repeated elements
duplicateFree(list) == Cardinality(Range(list)) = Len(list)

(* C11: with the calls made one after another and nothing failing, a call   *)
(* for a movie that has an aggregate adds one to its count, adds the query  *)
(* to its terms only when it is not there yet, sets lastSearchTerm to the   *)
(* query and creates nothing; a call for a movie without one creates        *)
(* exactly one document with the query as its only term and count 1; so     *)
(* the one aggregate always counts the calls made for the movie and lists   *)
(* their distinct queries.                                                  *)
C11_SequentialAggregate ==
    [][\A w \in DOMAIN writers : usWrite(w) =>
         LET m == writers[w].movie
             query == writers[w].query
             before == aggregates(m)
             after == equalMovie(docs', m)
         IN /\ Len(after) = 1
            /\ after[1].lastSearchTerm = query
            /\ after[1].count = events'[m]
            /\ Range(after[1].searchTerms) = recorded'[m]
            /\ duplicateFree(after[1].searchTerms)
            /\ IF before = <<>>
                  THEN /\ Len(docs') = Len(docs) + 1
                       /\ after[1].count = 1
                       /\ after[1].searchTerms = <<query>>
                  ELSE /\ Len(docs') = Len(docs)
                       /\ after[1].id = before[1].id
                       /\ after[1].count = before[1].count + 1
                       /\ after[1].searchTerms =
                             IF query \in Range(before[1].searchTerms)
                                THEN before[1].searchTerms
                                ELSE before[1].searchTerms \o <<query>>]_vars

\* two awaited calls with the same query for a movie that had no aggregate
C11_Witness ==
    /\ \A w \in DOMAIN writers : writers[w].pc = "done"
    /\ \E w, v \in DOMAIN writers :
          /\ w # v
          /\ writers[w].movie = writers[v].movie
          /\ writers[w].query = writers[v].query
          /\ Len(aggregates(writers[w].movie)) = 1
          /\ aggregates(writers[w].movie)[1].count = 2
          /\ aggregates(writers[w].movie)[1].searchTerms = <<writers[w].query>>


\* the calls made for movie m, and whether each of them has returned
callsFor(m) == {w \in DOMAIN writers : writers[w].pc # "idle" /\ writers[w].movie = m}
allReturned(m) == \A w \in callsFor(m) : writers[w].pc = "done"

\* what the last run of instance r returned
lastResult(r) == recon[r].results[Len(recon[r].results)]

\* instance r has completed a run that listed the collection after every
\* search of movie m recorded so far, and no run of it has failed
reconciledAfterCalls(r, m) ==
    /\ recon[r].pc = "done"
    /\ recon[r].results # <<>>
    /\ \A k \in DOMAIN recon[r].results : ~recon[r].results[k].error
    /\ recon[r].listed[m] = events[m]

(* C12: two calls for the same movie, one after the other or overlapping,   *)
(* starting with no aggregate for it, followed by a completed cleanup run   *)
(* leave exactly one aggregate of the movie with count 2 and with both      *)
(* queries in searchTerms; if the two queries are the same, the term is     *)
(* there once and the count is still 2.                                     *)
C12_TwoCallsThenReconcile ==
    \A m \in Movies, r \in DOMAIN recon :
       (/\ Cardinality(callsFor(m)) = 2
        /\ allReturned(m)
        /\ events[m] = 2
        /\ reconciledAfterCalls(r, m))
       => /\ Len(aggregates(m)) = 1
          /\ aggregates(m)[1].count = 2
          /\ Range(aggregates(m)[1].searchTerms) = {writers[w].query : w \in callsFor(m)}
          /\ duplicateFree(aggregates(m)[1].searchTerms)

\* two overlapping calls with the same query each created a document, and the
\* run merged the two
C12_Witness ==
    \E m \in Movies, r \in DOMAIN recon :
       /\ Cardinality(callsFor(m)) = 2
       /\ allReturned(m)
       /\ events[m] = 2
       /\ reconciledAfterCalls(r, m)
       /\ lastResult(r).duplicatesRemoved = 1
       /\ Cardinality({writers[w].query : w \in callsFor(m)}) = 1


(* C13: for any interleaving of calls for one movie, also calls that        *)
(* overlap while the movie has an aggregate, once all have returned and a   *)
(* cleanup run made after them has completed, there is exactly one          *)
(* aggregate of the movie, its count is the number of calls made and its    *)
(* searchTerms are the union of the queries recorded.                       *)
C13_PostReconciliation ==
    \A m \in Movies, r \in DOMAIN recon :
       (/\ callsFor(m) # {}
        /\ allReturned(m)
        /\ reconciledAfterCalls(r, m))
       => /\ Len(aggregates(m)) = 1
          /\ aggregates(m)[1].count = events[m]
          /\ Range(aggregates(m)[1].searchTerms) = recorded[m]


\* the positions of movie m's documents in a listing, the sum of the counts at
\* a set of positions and the terms found there
groupOf(ds, m) == {k \in DOMAIN ds : ds[k].movie_id = m}

RECURSIVE countSum(_, _)
countSum(ds, K) ==
    IF K = {} THEN 0
    ELSE LET k == CHOOSE j \in K : TRUE IN ds[k].count + countSum(ds, K \ {k})

termsAt(ds, K) == UNION {Range(ds[k].searchTerms) : k \in K}

\* instance r has returned from a run, and no run of it has failed
completed(r) ==
    /\ recon[r].pc = "done"
    /\ recon[r].results # <<>>
    /\ \A k \in DOMAIN recon[r].results : ~recon[r].results[k].error

C16_RerunAfterFailure ==
    \A r \in DOMAIN recon :
       /\ (recon[r].pc = "done" /\ recon[r].results # <<>> /\ ~lastResult(r).error)
          => \A m \in Movies :
                aggregates(m) # <<>> =>
                   /\ Len(aggregates(m)) = 1
                   /\ aggregates(m)[1].count = events[m]
                   /\ Range(aggregates(m)[1].searchTerms) = recorded[m]
       /\ (recon[r].pc = "done" /\ recon[r].results # <<>> /\ lastResult(r).error)
          => \A m \in Movies :
                (recon[r].movie > 0 /\ m > recon[r].movie)
                   => aggregates(m) = equalMovie(recon[r].allDocs, m)


(* C17: when a cleanup run fails in the middle of its work, the caller is   *)
(* told of the failure together with the counts of the work done up to it:  *)
(* the groups with duplicates entered and the documents deleted.            *)
C17_FailureReportsProgress ==
    \A r \in DOMAIN recon :
       (recon[r].pc = "done" /\ recon[r].results # <<>> /\ lastResult(r).error)
       => /\ lastResult(r).duplicatesFound = recon[r].duplicatesFound
          /\ lastResult(r).duplicatesRemoved = recon[r].deleted

\* the movies that have more than one document in a listing
withDuplicates(ds) == {m \in Movies : Cardinality(groupOf(ds, m)) > 1}

(* C18: a cleanup run that completes reports as duplicatesFound the number  *)
(* of groups of the listed collection with more than one document, and as   *)
(* duplicatesRemoved the sum over these groups of their size less one,      *)
(* which is the number of documents it deleted.                             *)
C18_ReportedCounts ==
    \A r \in DOMAIN recon :
       (recon[r].pc = "done" /\ recon[r].results # <<>> /\ ~lastResult(r).error)
       => LET listed == recon[r].allDocs
              extra == Len(listed) - Cardinality({listed[k].movie_id : k \in DOMAIN listed})
          IN /\ lastResult(r).duplicatesFound = Cardinality(withDuplicates(listed))
             /\ lastResult(r).duplicatesRemoved = extra
             /\ recon[r].deleted = extra
             /\ Len(docs) = Len(listed) - extra

\* a completed run that found one group, of three documents
C18_Witness ==
    \E r \in DOMAIN recon :
       /\ recon[r].pc = "done"
       /\ recon[r].results # <<>>
       /\ lastResult(r) = [duplicatesFound |-> 1, duplicatesRemoved |-> 2, error |-> FALSE]
       /\ Len(recon[r].allDocs) = Len(docs) + 2


(* C19: whatever duplicates the collection holds, getTrendingMovies never   *)
(* returns two entries with the same movie_id.                              *)
C19_NoRepeatedMovie ==
    \A a, b \in DOMAIN trend.result :
       a # b => trend.result[a].movie_id # trend.result[b].movie_id

\* a query answered from a collection with two documents of one movie
C19_Witness ==
    /\ trend.pc = "done"
    /\ trend.result # <<>>
    /\ Len(trend.result) < Len(trend.documents)
    /\ \E a, b \in DOMAIN docs : a # b /\ docs[a].movie_id = docs[b].movie_id

(* C20, as stated: the returned list is ordered by count descending, and    *)
(* entries with equal counts by lastSearched descending.                    *)
C20_TiesByLastSearched ==
    \A a, b \in DOMAIN trend.result :
       a < b =>
          \/ trend.result[a].count > trend.result[b].count
          \/ /\ trend.result[a].count = trend.result[b].count
             /\ trend.result[a].lastSearched >= trend.result[b].lastSearched

\* where a returned entry stands in the listing the store answered with
listingPosition(d) == CHOOSE k \in DOMAIN trend.documents : trend.documents[k].id = d.id

(* C20, amended: the returned list is ordered by count descending, and      *)
(* entries with equal counts stand in the order in which the store listed   *)
(* them; the client applies no tie-break.                                   *)
C20_CountDescendingInListingOrder ==
    \A a, b \in DOMAIN trend.result :
       a < b =>
          /\ trend.result[a].count >= trend.result[b].count
          /\ trend.result[a] \in Range(trend.documents)
          /\ trend.result[b] \in Range(trend.documents)
          /\ listingPosition(trend.result[a]) < listingPosition(trend.result[b])

\* two movies with equal counts returned with the one searched earlier first
C20_Witness ==
    /\ trend.pc = "done"
    /\ \E a, b \in DOMAIN trend.result :
          /\ a < b
          /\ trend.result[a].count = trend.result[b].count
          /\ trend.result[a].lastSearched < trend.result[b].lastSearched


(* --------------------------- claims C21..C30 --------------------------- *)

(* C21: an updateSearchCount call that fails after its last attempt does    *)
(* not fail the search: the rejection is caught by trackSearch, and the     *)
(* fetch controller's data, loading and error stay as they are.             *)
C21_TrackingFailureNonFatal ==
    [][\A w \in DOMAIN writers :
         (usAttemptFails(w) /\ writers'[w].pc = "failed")
         => /\ writers'[w].settled = "caught"
            /\ state'.data = state.data
            /\ state'.loading = state.loading
            /\ state'.error = state.error]_vars

\* a tracking call has failed for good while the movies it tracked are shown
C21_Witness ==
    \E w \in DOMAIN writers :
       /\ writers[w].pc = "failed"
       /\ writers[w].i = CallRetries - 1
       /\ state.data # Null
       /\ ~state.loading
       /\ state.error = Null


(* C22: the request id counts logical requests: every fetch()/refetch()     *)
(* call raises it by exactly 1 and the retry attempts of a call leave it    *)
(* (and the id the call is known by) alone, so that a retry never makes an  *)
(* older call the current one again.                                        *)
C22_IdPerLogicalRequest ==
    [][/\ refetch => requestIdRef' = requestIdRef + 1
       /\ \A c \in DOMAIN calls :
             retryTimer(c) => /\ requestIdRef' = requestIdRef
                              /\ calls'[c].requestId = calls[c].requestId]_vars

(* C23: no result of a call issued before reset() is committed after that   *)
(* reset: when a call that a reset discarded completes, with a result or    *)
(* with its final failure, the state is left as it is.                      *)
C23_NoCommitAfterReset ==
    [][\A c \in DOMAIN calls :
         (calls[c].discarded /\ (fetchResolve(c) \/ fetchRejectFinal(c)))
         => state' = state]_vars

(* C28: a fetch()/refetch() call sets loading to true and error to absent   *)
(* once, when it starts, and leaves data as it is; the rejection of an      *)
(* attempt that will be retried and the start of the retry attempt write    *)
(* nothing.                                                                 *)
C28_LoadingOnFirstAttemptOnly ==
    [][/\ (refetch \/ (mountEffect /\ options.autoFetch))
          => /\ state'.loading
             /\ state'.error = Null
             /\ state'.data = state.data
       /\ \A c \in DOMAIN calls :
             (fetchRejectRetry(c) \/ retryTimer(c)) => state' = state]_vars

\* a refetch started while data was shown and is now in its retry attempt
C28_Witness ==
    \E c \in DOMAIN calls :
       /\ calls[c].kind = "refetch"
       /\ calls[c].status = "awaiting"
       /\ calls[c].retryCount >= 1
       /\ state.loading
       /\ state.data # Null


\* the counts of movie m's documents in the collection ds, added up
storedCount(ds, m) == countSum(ds, groupOf(ds, m))

(* C24: the race of two overlapping calls for one movie happens, in both    *)
(* its forms.  A call that read "not found" creates its document also when  *)
(* another call has created one meanwhile, which leaves two aggregates of   *)
(* the movie; a call that read a document another call has updated          *)
(* meanwhile writes the count it read plus 1, so that a search is recorded  *)
(* and the stored count does not grow: the aggregate is under-counted.      *)
C24_RaceOutcomes ==
    [][\A w \in DOMAIN writers : usWrite(w) =>
         LET m == writers[w].movie
             read == writers[w].existingDoc
         IN /\ (read = NoDoc /\ aggregates(m) # <<>>)
                  => Len(equalMovie(docs', m)) = Len(aggregates(m)) + 1
            /\ (read # NoDoc /\ stored(read.id).count > read.count)
                  => /\ Len(docs') = Len(docs)
                     /\ storedCount(docs', m) = storedCount(docs, m) - stored(read.id).count
                                                   + read.count + 1
                     /\ storedCount(docs', m) <= storedCount(docs, m)
                     /\ events'[m] = events[m] + 1]_vars

\* both calls read the same document and both have written: three searches
\* recorded, count 2
C24_Witness ==
    \E w, v \in DOMAIN writers :
       /\ w # v
       /\ writers[w].pc = "done" /\ writers[v].pc = "done"
       /\ writers[w].movie = writers[v].movie
       /\ writers[w].existingDoc # NoDoc
       /\ writers[w].existingDoc = writers[v].existingDoc
       /\ Len(aggregates(writers[w].movie)) = 1
       /\ aggregates(writers[w].movie)[1].count = writers[w].existingDoc.count + 1
       /\ events[writers[w].movie] = writers[w].existingDoc.count + 2


\* no call is in flight and no run is under way
atRest ==
    /\ \A w \in DOMAIN writers : ~inFlight(w)
    /\ \A r \in DOMAIN recon : recon[r].pc \in {"idle", "done"}

(* C25: with cleanup runs of several instances and calls interleaved in     *)
(* any way, once the calls have stopped and one more cleanup run, made      *)
(* after the last of them, has completed, every movie that was searched     *)
(* has exactly one aggregate and its count is the number of calls that      *)
(* completed: no search is lost because a run was under way.                *)
C25_ConvergesToCompletedCalls ==
    (/\ atRest
     /\ \E r \in DOMAIN recon : /\ recon[r].results # <<>>
                                /\ ~lastResult(r).error
                                /\ recon[r].listed = events)
    => \A m \in Movies :
          events[m] > 0 => /\ Len(aggregates(m)) = 1
                           /\ aggregates(m)[1].count = events[m]

(* C26: a cleanup run never removes the last aggregate of a movie: however  *)
(* the runs of the instances and the calls interleave, a movie that has an  *)
(* aggregate before a step has one after it.                                *)
C26_KeepsOneAggregate ==
    [][\A m \in Movies : aggregates(m) # <<>> => equalMovie(docs', m) # <<>>]_vars


\* the positions in a listing of the documents of movie m written last
latestOf(ds, m) ==
    {k \in groupOf(ds, m) : \A j \in groupOf(ds, m) : ds[k].updatedAt >= ds[j].updatedAt}

(* C27, as stated: of a group with duplicates a completed run keeps the     *)
(* document with the latest $updatedAt, and of several with that time the   *)
(* one with the lowest id, wherever the store listed it.                    *)
C27_KeepsLatestLowestId ==
    \A r \in DOMAIN recon : completed(r) =>
       \A m \in withDuplicates(recon[r].allDocs) :
          \E k \in latestOf(recon[r].allDocs, m) :
             /\ aggregates(m)[1].id = recon[r].allDocs[k].id
             /\ \A j \in latestOf(recon[r].allDocs, m) :
                   recon[r].allDocs[k].id <= recon[r].allDocs[j].id

(* C27, amended: of a group with duplicates a completed run keeps the       *)
(* document with the latest $updatedAt, and of several with that time the   *)
(* one the store listed first.                                              *)
C27_KeepsLatestFirstListed ==
    \A r \in DOMAIN recon : completed(r) =>
       \A m \in withDuplicates(recon[r].allDocs) :
          \E k \in latestOf(recon[r].allDocs, m) :
             /\ Len(aggregates(m)) = 1
             /\ aggregates(m)[1].id = recon[r].allDocs[k].id
             /\ \A j \in latestOf(recon[r].allDocs, m) : k <= j

\* a run kept, of two documents written at the same time, the one with the
\* higher id
C27_Witness ==
    \E r \in DOMAIN recon :
       /\ completed(r)
       /\ \E m \in withDuplicates(recon[r].allDocs) :
             \E j \in latestOf(recon[r].allDocs, m) :
                recon[r].allDocs[j].id < aggregates(m)[1].id

\* the positions of a page that hold the first document of their movie
firstOccurrences(page) ==
    {k \in DOMAIN page : \A j \in 1..(k - 1) : page[j].movie_id # page[k].movie_id}

\* the movies that have a document in the collection
distinctMovies(ds) == {ds[k].movie_id : k \in DOMAIN ds}

\* a query that was answered by the store, not by the catch
answered == trend.pc = "done" /\ ~trend.failed

(* C29: the result of getTrendingMovies comes from the count-descending     *)
(* page of at most 10 documents by keeping the first document of each       *)
(* movie_id in the order of the page and cutting after 5: it has at most 5  *)
(* entries, its a-th entry is the a-th first occurrence of the page, and    *)
(* the dedup pass leaves it as it is.                                       *)
C29_FirstOccurrencesThenTruncated ==
    answered =>
       LET page == trend.documents
           result == trend.result
           firsts == firstOccurrences(page)
       IN /\ Len(page) = IF Len(docs) < TrendingLimit THEN Len(docs) ELSE TrendingLimit
          /\ \A k \in DOMAIN page :
                /\ page[k] \in Range(docs)
                /\ k < Len(page) => page[k].count >= page[k + 1].count
                /\ \A d \in Range(docs) \ Range(page) : page[k].count >= d.count
          /\ Len(result) <= TopCount
          /\ Len(result) = IF Cardinality(firsts) < TopCount
                              THEN Cardinality(firsts) ELSE TopCount
          /\ \A a \in DOMAIN result :
                \E k \in firsts : /\ result[a] = page[k]
                                  /\ Cardinality({j \in firsts : j <= k}) = a
          /\ uniqueMovies(result) = result

\* a collection of more than 10 documents whose page repeats a movie and
\* holds more than 5 movies: the limit, the dedup pass and the slice all cut
C29_Witness ==
    /\ answered
    /\ Len(docs) > TrendingLimit
    /\ Len(trend.documents) = TrendingLimit
    /\ Cardinality(firstOccurrences(trend.documents)) > TopCount
    /\ Cardinality(firstOccurrences(trend.documents)) < Len(trend.documents)
    /\ Len(trend.result) = TopCount

(* C30: an answered getTrendingMovies returns exactly min(5, D) entries,    *)
(* D being the number of distinct movie_id values in the collection, also   *)
(* while the collection holds duplicates.                                   *)
C30_AsManyAsDistinctMovies ==
    answered =>
       Len(trend.result) = IF Cardinality(distinctMovies(docs)) < TopCount
                              THEN Cardinality(distinctMovies(docs)) ELSE TopCount

(* ------------------------- claims C31..C36 ----------------------------- *)

\* the ids of the documents of a collection
ids(ds) == {ds[k].id : k \in DOMAIN ds}

(* C31: documents are deleted only by cleanupDuplicateMovies: no step of    *)
(* updateSearchCount removes a document, no step of getTrendingMovies       *)
(* changes the collection, and every document that a step removes is        *)
(* removed by a cleanup run in whose listing the movie of the document had  *)
(* more than one document.                                                  *)
C31_DeletedOnlyByCleanup ==
    [][/\ writers' # writers => ids(docs) \subseteq ids(docs')
       /\ trend' # trend => docs' = docs
       /\ \A d \in Range(docs) :
             d.id \notin ids(docs') =>
                \E r \in DOMAIN recon :
                   /\ recon'[r] # recon[r]
                   /\ recon[r].pc = "delete"
                   /\ Len(equalMovie(recon[r].allDocs, d.movie_id)) > 1
                   /\ d.id \in ids(recon[r].allDocs)]_vars

\* a search was recorded, a trending query was answered from a collection
\* with documents, and a cleanup run has deleted a duplicate
C31_Witness ==
    /\ \E w \in DOMAIN writers : writers[w].settled = "tracked"
    /\ answered
    /\ trend.documents # <<>>
    /\ \E r \in DOMAIN recon : recon[r].deleted > 0

\* a step in which an attempt of some call completes for good
attemptCompletes ==
    \E c \in DOMAIN calls : calls[c].status = "awaiting" /\ calls'[c].status = "done"

(* C32: if every invocation of fetchFunction completes and the screen stays *)
(* mounted, loading becomes false eventually, and once loading is false the *)
(* completion of an outstanding attempt leaves data and error alone (only   *)
(* the next fetch, which sets loading, can lead to a change).               *)
C32_Liveness ==
    /\ state.loading ~> (~state.loading \/ ~isMountedRef)
    /\ [][(~state.loading /\ attemptCompletes) =>
             (state'.data = state.data /\ state'.error = state.error)]_vars

(* C33: in every reachable state of the hook, isStale = true implies that   *)
(* data is present.                                                         *)
C33_StaleImpliesData == state.isStale => state.data # Null

(* C34: loading = true and an error never hold together, and exactly one of *)
(* loading, isSuccess, isError and isIdle is true.                          *)
C34_OneStatus ==
    /\ ~(state.loading /\ state.error # Null)
    /\ Cardinality({k \in 1..4 :
          <<state.loading, isSuccess(state), isError(state), isIdle(state)>>[k]}) = 1

\* an error is shown while the retry of an older call is in flight
C34_Witness ==
    /\ state.error # Null
    /\ \E c \in DOMAIN calls : calls[c].status = "awaiting" /\ calls[c].retryCount > 0

\* the query of call c failed on every attempt
queryFailed(c) == exec[c].pc = "threw"

(* C35: getTrendingMovies never rejects: no call of the home screen's hook  *)
(* ends with a rejected fetchFunction, the hook never holds an error, a     *)
(* call whose query failed on every attempt and whose result is shown       *)
(* leaves the hook in the success state, and once every call has settled    *)
(* on a mounted screen the hook is in the success state.                    *)
C35_NeverRejects ==
    /\ state.error = Null
    /\ ~isError(state)
    /\ \A c \in DOMAIN calls :
          /\ calls[c].status = "done" => calls[c].outcome = "ok"
          /\ calls[c].settled # "rejected"
          /\ (queryFailed(c) /\ state.data = c /\ ~state.loading) => isSuccess(state)
    /\ (isMountedRef /\ calls # <<>> /\ \A c \in DOMAIN calls : calls[c].status = "done")
          => isSuccess(state)

\* the store query of a call failed on all attempts and the empty list it
\* resolved with is shown as a success
C35_Witness ==
    \E c \in DOMAIN calls :
       /\ queryFailed(c)
       /\ exec[c].failures = CallRetries
       /\ calls[c].status = "done"
       /\ state.data = c
       /\ isSuccess(state)

====
